---------------------------- MODULE Spec2Model ----------------------------
(***************************************************************************)
(* A model of server/server.py: the start-up script that parses the        *)
(* command line, resolves the model files, constructs the Synthesizer and  *)
(* starts uvicorn, and the three request handlers index, details and tts.  *)
(*                                                                         *)
(* The script is run as  python server.py ...  so its module body runs     *)
(* once as __main__ and, because main() hands uvicorn the import string    *)
(* 'server:app', once more when uvicorn imports the module `server`.       *)
(* The variable `pass` says which of the two executions is running.       *)
(***************************************************************************)
EXTENDS Integers, Sequences, FiniteSets, TLC

-----------------------------------------------------------------------------
(* Bounds of the model.                                                    *)

\* number of HTTP requests a behaviour may contain
MaxReq == 2
\* number of times the configuration files on disk are edited while serving
MaxEdits == 1

-----------------------------------------------------------------------------
(* Python values.  None is a marker string no path or name is equal to;    *)
(* Python strings that the code only passes around are TLA+ strings; the   *)
(* style_wav query string, which the code inspects, is a sequence of       *)
(* one-character strings.  Values of json.loads are tagged records.        *)

None == "<None>"

\* bool(x) for x a str or None (line 88, 92: `not args.model_path`)
Truthy(x) == x # None /\ x # ""

NoneV == [t |-> "none"]
StrV(s) == [t |-> "str", v |-> s]
IntV(n) == [t |-> "int", v |-> n]
FloatV(n, d) == [t |-> "float", num |-> n, den |-> d]
BoolV(b) == [t |-> "bool", v |-> b]
ListV(l) == [t |-> "list", v |-> l]
DictV(d) == [t |-> "dict", v |-> d]

Digits == {"0", "1", "2", "3", "4", "5", "6", "7", "8", "9"}

DigitVal(c) ==
  CASE c = "0" -> 0 [] c = "1" -> 1 [] c = "2" -> 2 [] c = "3" -> 3
    [] c = "4" -> 4 [] c = "5" -> 5 [] c = "6" -> 6 [] c = "7" -> 7
    [] c = "8" -> 8 [] c = "9" -> 9

Whitespace == {" "}

\* str.endswith
EndsWith(s, suffix) ==
  /\ Len(s) >= Len(suffix)
  /\ SubSeq(s, Len(s) - Len(suffix) + 1, Len(s)) = suffix

\* s[i:].startswith(word)
StartsAt(s, i, word) ==
  /\ i + Len(word) - 1 <= Len(s)
  /\ SubSeq(s, i, i + Len(word) - 1) = word

-----------------------------------------------------------------------------
(* json.loads, over the characters the modelled query strings use: objects,*)
(* arrays, strings without escapes, numbers (an optional minus sign, an    *)
(* integer part without leading zeros, an optional fraction), true, false, *)
(* null, and blanks between tokens.  A parse yields                        *)
(* [ok |-> TRUE, val, pos] (pos: the index after the value) or JsonError,  *)
(* which stands for json.JSONDecodeError being raised.                     *)

JsonError == [ok |-> FALSE]
JsonOk(v, p) == [ok |-> TRUE, val |-> v, pos |-> p]

RECURSIVE SkipWs(_, _)
SkipWs(s, i) ==
  IF i <= Len(s) /\ s[i] \in Whitespace THEN SkipWs(s, i + 1) ELSE i

RECURSIVE ClosingQuote(_, _)
ClosingQuote(s, j) ==
  IF j > Len(s) THEN 0
  ELSE IF s[j] = "\"" THEN j
  ELSE ClosingQuote(s, j + 1)

\* s[i] is the opening quote
ParseString(s, i) ==
  LET j == ClosingQuote(s, i + 1)
  IN  IF j = 0 THEN JsonError
      ELSE JsonOk(StrV(SubSeq(s, i + 1, j - 1)), j + 1)

RECURSIVE DigitsEnd(_, _)
DigitsEnd(s, i) ==
  IF i <= Len(s) /\ s[i] \in Digits THEN DigitsEnd(s, i + 1) ELSE i

RECURSIVE ToInt(_)
ToInt(ds) ==
  IF ds = << >> THEN 0
  ELSE 10 * ToInt(SubSeq(ds, 1, Len(ds) - 1)) + DigitVal(ds[Len(ds)])

RECURSIVE Pow10(_)
Pow10(k) == IF k = 0 THEN 1 ELSE 10 * Pow10(k - 1)

ParseNumber(s, i) ==
  LET neg == s[i] = "-"
      a == IF neg THEN i + 1 ELSE i
      b == IF a <= Len(s) /\ s[a] = "0" THEN a + 1 ELSE DigitsEnd(s, a)
      hasFrac == b <= Len(s) /\ s[b] = "." /\ DigitsEnd(s, b + 1) > b + 1
      c == IF hasFrac THEN DigitsEnd(s, b + 1) ELSE b
      sign == IF neg THEN -1 ELSE 1
      whole == SubSeq(s, a, b - 1)
      frac == SubSeq(s, b + 1, c - 1)
  IN  IF b = a THEN JsonError
      ELSE IF hasFrac
        THEN JsonOk(FloatV(sign * ToInt(whole \o frac), Pow10(Len(frac))), c)
        ELSE JsonOk(IntV(sign * ToInt(whole)), b)

\* dict item assignment d[k] = v (a repeated key keeps the last value)
DictPut(d, k, v) == [x \in DOMAIN d \cup {k} |-> IF x = k THEN v ELSE d[x]]

RECURSIVE ParseValue(_, _), ParseElements(_, _, _), ParseMembers(_, _, _)

ParseValue(s, i) ==
  IF i > Len(s) THEN JsonError
  ELSE IF s[i] = "\"" THEN ParseString(s, i)
  ELSE IF s[i] = "{" THEN
    LET j == SkipWs(s, i + 1)
    IN  IF j <= Len(s) /\ s[j] = "}" THEN JsonOk(DictV(<< >>), j + 1)
        ELSE ParseMembers(s, j, << >>)
  ELSE IF s[i] = "[" THEN
    LET j == SkipWs(s, i + 1)
    IN  IF j <= Len(s) /\ s[j] = "]" THEN JsonOk(ListV(<< >>), j + 1)
        ELSE ParseElements(s, j, << >>)
  ELSE IF StartsAt(s, i, <<"n", "u", "l", "l">>) THEN JsonOk(NoneV, i + 4)
  ELSE IF StartsAt(s, i, <<"t", "r", "u", "e">>) THEN JsonOk(BoolV(TRUE), i + 4)
  ELSE IF StartsAt(s, i, <<"f", "a", "l", "s", "e">>)
    THEN JsonOk(BoolV(FALSE), i + 5)
  ELSE IF s[i] \in Digits \cup {"-"} THEN ParseNumber(s, i)
  ELSE JsonError

\* the elements of an array from index i on, acc the elements read so far
ParseElements(s, i, acc) ==
  LET r == ParseValue(s, i)
      j == SkipWs(s, r.pos)
  IN  IF ~r.ok \/ j > Len(s) THEN JsonError
      ELSE IF s[j] = "]" THEN JsonOk(ListV(Append(acc, r.val)), j + 1)
      ELSE IF s[j] = "," THEN ParseElements(s, SkipWs(s, j + 1), Append(acc, r.val))
      ELSE JsonError

\* the members of an object from index i on, d the members read so far
ParseMembers(s, i, d) ==
  LET k == IF i <= Len(s) /\ s[i] = "\"" THEN ParseString(s, i) ELSE JsonError
      c == SkipWs(s, k.pos)
      r == IF c <= Len(s) /\ s[c] = ":"
             THEN ParseValue(s, SkipWs(s, c + 1)) ELSE JsonError
      j == SkipWs(s, r.pos)
  IN  IF ~k.ok THEN JsonError
      ELSE IF ~r.ok \/ j > Len(s) THEN JsonError
      ELSE IF s[j] = "}" THEN JsonOk(DictV(DictPut(d, k.val.v, r.val)), j + 1)
      ELSE IF s[j] = ","
        THEN ParseMembers(s, SkipWs(s, j + 1), DictPut(d, k.val.v, r.val))
      ELSE JsonError

\* json.loads(s): one value, blanks around it, nothing after it
JsonLoads(s) ==
  LET r == ParseValue(s, SkipWs(s, 1))
  IN  IF ~r.ok THEN JsonError
      ELSE IF SkipWs(s, r.pos) = Len(s) + 1 THEN JsonOk(r.val, r.pos)
      ELSE JsonError


-----------------------------------------------------------------------------
(* style_wav_uri_to_dict and the files it can see.                         *)

\* the query strings the model sends as style_wav
S_empty == << >>
S_wav == <<"a", ".", "w", "a", "v">>
S_nowav == <<"b", ".", "w", "a", "v">>
S_dict == <<"{", "\"", "0", "\"", ":", " ", "0", ".", "1", "}">>
S_int == <<"1">>
S_list == <<"[", "1", "]">>
S_str == <<"\"", "x", "\"">>
S_bool == <<"t", "r", "u", "e">>
S_null == <<"n", "u", "l", "l">>
S_bad == <<"{", "\"", "0", "\"", ":">>

StyleInputs ==
  {S_empty, S_wav, S_nowav, S_dict, S_int, S_list, S_str, S_bool, S_null, S_bad}

\* the audio files on the server's disk (os.path.isfile of a style_wav)
AudioFiles == {S_wav}

IsFile(pth) == pth \in AudioFiles

DotWav == <<".", "w", "a", "v">>

\* the result of a call: [raised |-> FALSE, val, parsed] or
\* [raised |-> TRUE, parsed]; parsed says whether json.loads was called
Returned(v, p) == [raised |-> FALSE, val |-> v, parsed |-> p]
Raised(p) == [raised |-> TRUE, parsed |-> p]

\* mutant of style_wav_uri_to_dict: the existence test is left out
style_wav_no_isfile(style_wav) ==
  IF style_wav # << >>
    THEN IF EndsWith(style_wav, DotWav)
           THEN Returned(StrV(style_wav), FALSE)
           ELSE LET j == JsonLoads(style_wav)
                IN  IF j.ok THEN Returned(j.val, TRUE) ELSE Raised(TRUE)
    ELSE Returned(NoneV, FALSE)

\* mutant of style_wav_uri_to_dict: the JSON reading comes first
style_wav_json_first(style_wav) ==
  IF style_wav # << >>
    THEN LET j == JsonLoads(style_wav)
         IN  IF j.ok THEN Returned(j.val, TRUE)
             ELSE IF IsFile(style_wav) /\ EndsWith(style_wav, DotWav)
               THEN Returned(StrV(style_wav), TRUE)
               ELSE Raised(TRUE)
    ELSE Returned(NoneV, FALSE)

style_wav_uri_to_dict(style_wav) ==
  IF style_wav # << >>
    THEN IF IsFile(style_wav) /\ EndsWith(style_wav, DotWav)
           THEN Returned(StrV(style_wav), FALSE)
           ELSE LET j == JsonLoads(style_wav)
                IN  IF j.ok THEN Returned(j.val, TRUE) ELSE Raised(TRUE)
    ELSE Returned(NoneV, FALSE)

-----------------------------------------------------------------------------
(* The command line and create_argparser().parse_args().                   *)

DefaultPort == 5002
UvicornPort == 8000

DefaultModelName == "tts_models/en/ljspeech/tacotron2-DDC"
OtherVocoderName == "vocoder_models/en/ljspeech/univnet"

UserModelPath == "/models/my/model.pth"
UserConfigPath == "/models/my/config.json"
UserSpeakersPath == "/models/my/speakers.json"
UserVocoderPath == "/models/myvoc/model.pth"
UserVocoderConfigPath == "/models/myvoc/config.json"

\* a flag that is not on the command line; a flag given without a value
Absent == "<absent>"
Bare == "<bare>"

\* the command lines of the model: each flag absent or given
ArgvSet ==
  [list_models : {Absent, Bare, "No"},
   model_name : {Absent},
   vocoder_name : {Absent, OtherVocoderName},
   config_path : {Absent, UserConfigPath},
   model_path : {Absent, "", UserModelPath},
   vocoder_path : {Absent, UserVocoderPath},
   vocoder_config_path : {Absent, UserVocoderConfigPath},
   speakers_file_path : {Absent, UserSpeakersPath},
   port : {<< >>, <<9000>>}]

\* str.lower on the values the model passes
Lower(x) == IF x = "No" THEN "no" ELSE x

convert_boolean(x) == Lower(x) \in {"true", "1", "yes"}

\* argparse: the default when the flag is absent
OrDefault(x, d) == IF x = Absent THEN d ELSE x

parse_args(av) ==
  [list_models |-> IF av.list_models = Absent THEN FALSE
                   ELSE IF av.list_models = Bare THEN TRUE
                   ELSE convert_boolean(av.list_models),
   model_name |-> OrDefault(av.model_name, DefaultModelName),
   vocoder_name |-> OrDefault(av.vocoder_name, None),
   config_path |-> OrDefault(av.config_path, None),
   model_path |-> OrDefault(av.model_path, None),
   vocoder_path |-> OrDefault(av.vocoder_path, None),
   vocoder_config_path |-> OrDefault(av.vocoder_config_path, None),
   speakers_file_path |-> OrDefault(av.speakers_file_path, None),
   port |-> IF av.port = << >> THEN DefaultPort ELSE av.port[1]]

\* the module global `args` before line 66 has run
NoArgs == [list_models |-> FALSE, model_name |-> None, vocoder_name |-> None,
           config_path |-> None, model_path |-> None, vocoder_path |-> None,
           vocoder_config_path |-> None, speakers_file_path |-> None,
           port |-> 0]

-----------------------------------------------------------------------------
(* The collaborators the script calls: ModelManager.download_model and     *)
(* Synthesizer.  Only what the script reads of them is modelled.           *)

\* manager.download_model(name): (model path, config path, model item)
download_model(name) ==
  CASE name = DefaultModelName ->
         [model_path |-> "/cache/tacotron2-DDC/model_file.pth",
          config_path |-> "/cache/tacotron2-DDC/config.json",
          default_vocoder |-> "vocoder_models/en/ljspeech/hifigan_v2"]
    [] name = "vocoder_models/en/ljspeech/hifigan_v2" ->
         [model_path |-> "/cache/hifigan_v2/model_file.pth",
          config_path |-> "/cache/hifigan_v2/config.json",
          default_vocoder |-> None]
    [] name = OtherVocoderName ->
         [model_path |-> "/cache/univnet/model_file.pth",
          config_path |-> "/cache/univnet/config.json",
          default_vocoder |-> None]

\* synthesizer.tts_model.num_speakers of the model loaded from a checkpoint
NumSpeakers(checkpoint) ==
  IF checkpoint = UserModelPath THEN 4 ELSE 1

\* synthesizer.tts_config.get("use_gst", False) of a loaded configuration
ConfigUseGst(cfg) == cfg = UserConfigPath

NoEngine == [id |-> 0]

\* no socket is bound
NotListening == [host |-> "", port |-> 0]

\* the configuration files on disk (the user's and the downloaded ones)
ConfigFiles ==
  {UserConfigPath, UserVocoderConfigPath, "/cache/tacotron2-DDC/config.json",
   "/cache/hifigan_v2/config.json", "/cache/univnet/config.json"}

NoConfig == [path |-> None, version |-> 0]

\* TTS.config.load_config(path) when the files on disk are at version v:
\* the file's content, or an exception for None or a missing file
load_config(pth, v) ==
  IF pth = None \/ pth \notin ConfigFiles
    THEN [raised |-> TRUE]
    ELSE [raised |-> FALSE, val |-> [path |-> pth, version |-> v]]


-----------------------------------------------------------------------------
(* The state.                                                              *)

VARIABLES
  argv,                \* sys.argv, as one of ArgvSet
  pass,                \* 1: the module runs as __main__; 2: as `server`
  pc,                  \* the line the module body is at, "serving", "exited"
  args,                \* the module global args
  model_path, config_path, speakers_file_path, vocoder_path,
  vocoder_config_path, \* the module globals of lines 76-80
  synthesizer,         \* the Synthesizer: the arguments it was built from
  use_multi_speaker, speaker_manager, use_gst,
  exit_code,           \* None while running, else the process's exit status
  listed,              \* manager.list_models() has printed the catalog
  downloads,           \* calls of manager.download_model so far
  engines,             \* Synthesizer objects constructed so far
  listening,           \* None, or the [host, port] uvicorn has bound
  epoch,               \* the version of the configuration files on disk
  accepted,            \* per route, the requests received and not yet handled
  synth,               \* calls of synthesizer.tts in progress
  done,                \* requests answered, by status
  last                 \* the most recent handler run and its response

vars == <<argv, pass, pc, args, model_path, config_path, speakers_file_path,
          vocoder_path, vocoder_config_path, synthesizer, use_multi_speaker,
          speaker_manager, use_gst, exit_code, listed, downloads, engines,
          listening, epoch, accepted, synth, done, last>>

paths == <<model_path, config_path, speakers_file_path, vocoder_path,
           vocoder_config_path>>
engine == <<synthesizer, use_multi_speaker, speaker_manager, use_gst, engines>>
process == <<exit_code, listed, listening>>
requests == <<epoch, accepted, synth, done, last>>

Routes == {"index", "details", "tts"}

NoResponse ==
  [kind |-> "none", status |-> 0, style_in |-> << >>, resolved |-> NoneV,
   parsed |-> FALSE, invoked |-> FALSE, style |-> NoneV, media |-> "",
   model_config |-> NoConfig, vocoder_config |-> NoConfig, at |-> 0]

Init ==
  /\ argv \in ArgvSet
  /\ pass = 1
  /\ pc = "L66"
  /\ args = NoArgs
  /\ model_path = None /\ config_path = None /\ speakers_file_path = None
  /\ vocoder_path = None /\ vocoder_config_path = None
  /\ synthesizer = NoEngine
  /\ use_multi_speaker = FALSE /\ speaker_manager = None /\ use_gst = FALSE
  /\ exit_code = None
  /\ listed = FALSE
  /\ downloads = 0
  /\ engines = 0
  /\ listening = NotListening
  /\ epoch = 0
  /\ accepted = [r \in Routes |-> 0]
  /\ synth = 0
  /\ done = [ok |-> 0, err |-> 0]
  /\ last = NoResponse

-----------------------------------------------------------------------------
(* The module body, lines 66-128.                                          *)

\* mutant of Exit: the failure is recorded and the script goes on to main()
ExitIgnored(code) ==
  /\ pc' = "L196"
  /\ exit_code' = code

\* sys.exit(), or an exception that leaves the module body: the process ends
Exit(code) ==
  /\ pc' = "exited"
  /\ exit_code' = code

\* line 66
ParseArgs ==
  /\ pc = "L66"
  /\ args' = parse_args(argv)
  /\ pc' = "L71"
  /\ UNCHANGED <<argv, pass, paths, engine, process, downloads, requests>>

\* mutant of ListModelsRequested: the flag is not looked at
ListModelsIgnored == FALSE

\* `if args.list_models:` of lines 71 and 83
ListModelsRequested == args.list_models

\* lines 71-80
ListModels ==
  /\ pc = "L71"
  /\ IF ListModelsRequested
       THEN /\ listed' = TRUE
            /\ Exit("0")
            /\ UNCHANGED paths
       ELSE /\ model_path' = None /\ config_path' = None
            /\ speakers_file_path' = None
            /\ vocoder_path' = None /\ vocoder_config_path' = None
            /\ pc' = "L83"
            /\ UNCHANGED <<exit_code, listed>>
  /\ UNCHANGED <<argv, pass, args, engine, listening, downloads, requests>>

\* lines 83-85
ListModelsCase1 ==
  /\ pc = "L83"
  /\ IF ListModelsRequested
       THEN listed' = TRUE /\ Exit("0")
       ELSE pc' = "L88" /\ UNCHANGED <<exit_code, listed>>
  /\ UNCHANGED <<argv, pass, args, paths, engine, listening, downloads,
                 requests>>

\* lines 88-90; download_model returns (ok) or raises
LoadModel ==
  /\ pc = "L88"
  /\ IF args.model_name # None /\ ~Truthy(args.model_path)
       THEN /\ downloads' = downloads + 1
            /\ \E ok \in BOOLEAN :
                 IF ok
                   THEN LET m == download_model(args.model_name)
                        IN  /\ model_path' = m.model_path
                            /\ config_path' = m.config_path
                            /\ args' = [args EXCEPT !.vocoder_name =
                                 IF args.vocoder_name = None
                                   THEN m.default_vocoder
                                   ELSE args.vocoder_name]
                            /\ pc' = "L92"
                            /\ UNCHANGED exit_code
                   ELSE /\ Exit("1")
                        /\ UNCHANGED <<args, model_path, config_path>>
       ELSE /\ pc' = "L92"
            /\ UNCHANGED <<args, model_path, config_path, downloads,
                           exit_code>>
  /\ UNCHANGED <<argv, pass, speakers_file_path, vocoder_path,
                 vocoder_config_path, engine, listed, listening, requests>>

\* lines 92-93
LoadVocoder ==
  /\ pc = "L92"
  /\ IF args.vocoder_name # None /\ ~Truthy(args.vocoder_path)
       THEN /\ downloads' = downloads + 1
            /\ \E ok \in BOOLEAN :
                 IF ok
                   THEN LET m == download_model(args.vocoder_name)
                        IN  /\ vocoder_path' = m.model_path
                            /\ vocoder_config_path' = m.config_path
                            /\ pc' = "L96"
                            /\ UNCHANGED exit_code
                   ELSE /\ Exit("1")
                        /\ UNCHANGED <<vocoder_path, vocoder_config_path>>
       ELSE /\ pc' = "L96"
            /\ UNCHANGED <<vocoder_path, vocoder_config_path, downloads,
                           exit_code>>
  /\ UNCHANGED <<argv, pass, args, model_path, config_path,
                 speakers_file_path, engine, listed, listening, requests>>

\* lines 96-103
SetCustomPaths ==
  /\ pc = "L96"
  /\ IF args.model_path # None
       THEN /\ model_path' = args.model_path
            /\ config_path' = args.config_path
            /\ speakers_file_path' = args.speakers_file_path
       ELSE UNCHANGED <<model_path, config_path, speakers_file_path>>
  /\ IF args.vocoder_path # None
       THEN /\ vocoder_path' = args.vocoder_path
            /\ vocoder_config_path' = args.vocoder_config_path
       ELSE UNCHANGED <<vocoder_path, vocoder_config_path>>
  /\ pc' = "L106"
  /\ UNCHANGED <<argv, pass, args, engine, process, downloads, requests>>

\* lines 106-128.  Synthesizer(...) loads the files it is given, or raises;
\* without a checkpoint it loads nothing and returns, and then line 124
\* raises, because the Synthesizer has no configuration to read use_gst from
LoadSynthesizer ==
  /\ pc = "L106"
  /\ \E ok \in BOOLEAN :
       IF ok /\ (Truthy(model_path) => config_path # None)
         THEN /\ engines' = engines + 1
              /\ synthesizer' =
                   [id |-> engines + 1,
                    tts_checkpoint |-> model_path,
                    tts_config_path |-> config_path,
                    tts_speakers_file |-> speakers_file_path,
                    vocoder_checkpoint |-> vocoder_path,
                    vocoder_config |-> vocoder_config_path]
              /\ IF Truthy(model_path)
                   THEN /\ use_multi_speaker' =
                             (\/ NumSpeakers(model_path) > 1
                              \/ speakers_file_path # None)
                        /\ speaker_manager' =
                             IF \/ NumSpeakers(model_path) > 1
                                \/ speakers_file_path # None
                               THEN "speaker_manager" ELSE None
                        /\ use_gst' = ConfigUseGst(config_path)
                        /\ pc' = "L196"
                        /\ UNCHANGED exit_code
                   ELSE /\ use_multi_speaker' = FALSE
                        /\ speaker_manager' = None
                        /\ UNCHANGED use_gst
                        /\ Exit("1")
         ELSE /\ Exit("1")
              /\ UNCHANGED engine
  /\ UNCHANGED <<argv, pass, args, paths, listed, listening, downloads,
                 requests>>

\* lines 192-197 in __main__: main() calls uvicorn.run('server:app', ...),
\* which imports the module `server`: the module body runs again, on
\* globals of its own
Main ==
  /\ pc = "L196"
  /\ pass = 1
  /\ pass' = 2
  /\ pc' = "L66"
  /\ args' = NoArgs
  /\ model_path' = None /\ config_path' = None /\ speakers_file_path' = None
  /\ vocoder_path' = None /\ vocoder_config_path' = None
  /\ synthesizer' = NoEngine
  /\ use_multi_speaker' = FALSE /\ speaker_manager' = None /\ use_gst' = FALSE
  /\ UNCHANGED <<argv, engines, process, downloads, requests>>

\* line 193, once the import of `server` has returned (there __name__ is
\* not "__main__", so line 197 is skipped): uvicorn binds and serves
Listen ==
  /\ pc = "L196"
  /\ pass = 2
  /\ listening' = [host |-> "0.0.0.0", port |-> UvicornPort]
  /\ pc' = "serving"
  /\ UNCHANGED <<argv, pass, args, paths, engine, exit_code, listed,
                 downloads, requests>>


-----------------------------------------------------------------------------
(* Serving.  The three handlers are coroutines (async def) without an      *)
(* await, run by the one event loop of the one uvicorn process: a handler  *)
(* that has started runs to its return before another one starts.  The     *)
(* call of synthesizer.tts is the only step of a handler the model splits  *)
(* off, so that a call in progress is a state.                             *)

Total(f) == f["index"] + f["details"] + f["tts"]

Received == Total(accepted) + synth + done.ok + done.err

\* mutant of LoopFree: a handler starts while another is inside the engine
\* (the call awaited in a worker thread, or the handlers not coroutines)
LoopAlwaysFree == TRUE

\* the event loop is not inside a handler
LoopFree == synth = 0

\* a client's request reaches the listening socket
Arrive(route) ==
  /\ pc = "serving"
  /\ Received < MaxReq
  /\ accepted' = [accepted EXCEPT ![route] = @ + 1]
  /\ UNCHANGED <<argv, pass, pc, args, paths, engine, process, downloads,
                 epoch, synth, done, last>>

\* somebody rewrites the configuration files on disk
EditConfig ==
  /\ pc = "serving"
  /\ epoch < MaxEdits
  /\ epoch' = epoch + 1
  /\ UNCHANGED <<argv, pass, pc, args, paths, engine, process, downloads,
                 accepted, synth, done, last>>

\* lines 150-159
index ==
  /\ pc = "serving"
  /\ LoopFree
  /\ accepted["index"] > 0
  /\ accepted' = [accepted EXCEPT !["index"] = @ - 1]
  /\ done' = [done EXCEPT !.ok = @ + 1]
  /\ last' = [NoResponse EXCEPT !.kind = "index", !.status = 200,
                                !.media = "text/html"]
  /\ UNCHANGED <<argv, pass, pc, args, paths, engine, process, downloads,
                 epoch, synth>>

\* mutant of details: the handler stores the resolved path in args first
details_rebinding ==
  /\ pc = "serving"
  /\ synth = 0
  /\ accepted["details"] > 0
  /\ accepted' = [accepted EXCEPT !["details"] = @ - 1]
  /\ args' = [args EXCEPT !.config_path = config_path]
  /\ LET mc == load_config(config_path, epoch)
     IN  /\ done' = [done EXCEPT !.ok = @ + 1]
         /\ last' = [NoResponse EXCEPT !.kind = "details", !.status = 200,
                       !.media = "text/html", !.model_config = mc.val,
                       !.at = epoch]
  /\ UNCHANGED <<argv, pass, pc, paths, engine, process, downloads, epoch,
                 synth>>

\* lines 162-177; an exception of load_config becomes the framework's 500
details ==
  /\ pc = "serving"
  /\ LoopFree
  /\ accepted["details"] > 0
  /\ accepted' = [accepted EXCEPT !["details"] = @ - 1]
  /\ LET mc == load_config(args.config_path, epoch)
         readVocoder == /\ args.vocoder_config_path # None
                        /\ args.vocoder_config_path \in ConfigFiles
         vc == IF readVocoder
                 THEN load_config(args.vocoder_config_path, epoch)
                 ELSE [raised |-> FALSE, val |-> NoConfig]
     IN  IF mc.raised \/ vc.raised
           THEN /\ done' = [done EXCEPT !.err = @ + 1]
                /\ last' = [NoResponse EXCEPT !.kind = "details",
                              !.status = 500, !.at = epoch]
           ELSE /\ done' = [done EXCEPT !.ok = @ + 1]
                /\ last' = [NoResponse EXCEPT !.kind = "details",
                              !.status = 200, !.media = "text/html",
                              !.model_config = mc.val,
                              !.vocoder_config = vc.val, !.at = epoch]
  /\ UNCHANGED <<argv, pass, pc, args, paths, engine, process, downloads,
                 epoch, synth>>

\* lines 180-185: the style is resolved and synthesizer.tts is entered; an
\* exception of style_wav_uri_to_dict becomes the framework's 500
tts(style_wav) ==
  /\ pc = "serving"
  /\ LoopFree
  /\ accepted["tts"] > 0
  /\ accepted' = [accepted EXCEPT !["tts"] = @ - 1]
  /\ LET r == style_wav_uri_to_dict(style_wav)
     IN  IF r.raised
           THEN /\ done' = [done EXCEPT !.err = @ + 1]
                /\ last' = [NoResponse EXCEPT !.kind = "tts", !.status = 500,
                              !.style_in = style_wav, !.parsed = r.parsed]
                /\ UNCHANGED synth
           ELSE /\ synth' = synth + 1
                /\ last' = [NoResponse EXCEPT !.kind = "tts",
                              !.style_in = style_wav, !.parsed = r.parsed,
                              !.resolved = r.val, !.invoked = TRUE,
                              !.style = r.val]
                /\ UNCHANGED done
  /\ UNCHANGED <<argv, pass, pc, args, paths, engine, process, downloads,
                 epoch>>

\* lines 185-189: synthesizer.tts returns and the wave is sent, or it raises
tts_return ==
  /\ pc = "serving"
  /\ synth > 0
  /\ synth' = synth - 1
  /\ \E ok \in BOOLEAN :
       IF ok
         THEN /\ done' = [done EXCEPT !.ok = @ + 1]
              /\ last' = [last EXCEPT !.status = 200, !.media = "audio/wav"]
         ELSE /\ done' = [done EXCEPT !.err = @ + 1]
              /\ last' = [last EXCEPT !.status = 500]
  /\ UNCHANGED <<argv, pass, pc, args, paths, engine, process, downloads,
                 epoch, accepted>>

-----------------------------------------------------------------------------

Next ==
  \/ ParseArgs
  \/ ListModels
  \/ ListModelsCase1
  \/ LoadModel
  \/ LoadVocoder
  \/ SetCustomPaths
  \/ LoadSynthesizer
  \/ Main
  \/ Listen
  \/ \E route \in Routes : Arrive(route)
  \/ EditConfig
  \/ index
  \/ details
  \/ \E style_wav \in StyleInputs : tts(style_wav)
  \/ tts_return

Spec == Init /\ [][Next]_vars


\* the command lines the fair specification starts from: the flags that
\* decide whether the process serves, the others absent
FairArgvSet ==
  {av \in ArgvSet :
     /\ av.vocoder_name = Absent
     /\ av.vocoder_config_path = Absent
     /\ av.speakers_file_path = Absent
     /\ av.port = << >>}

FairInit ==
  /\ Init
  /\ argv \in FairArgvSet

\* the event loop runs every handler that is ready, and a call of the
\* engine returns
FairSpec ==
  /\ FairInit
  /\ [][Next]_vars
  /\ WF_vars(index)
  /\ WF_vars(details)
  /\ WF_vars(\E style_wav \in StyleInputs : tts(style_wav))
  /\ WF_vars(tts_return)

-----------------------------------------------------------------------------
(* The claims.                                                             *)

Constructed == synthesizer.id # 0
IsListening == listening # NotListening
IsWavFile(s) == s \in AudioFiles /\ EndsWith(s, DotWav)

\* C1: every explicit path flag that is on the command line is the value
\* the Synthesizer is given for its slot, whatever the other flags are.
C1_ExplicitPathsWin ==
  Constructed =>
    /\ argv.model_path # Absent
         => synthesizer.tts_checkpoint = argv.model_path
    /\ argv.config_path # Absent
         => synthesizer.tts_config_path = argv.config_path
    /\ argv.speakers_file_path # Absent
         => synthesizer.tts_speakers_file = argv.speakers_file_path
    /\ argv.vocoder_path # Absent
         => synthesizer.vocoder_checkpoint = argv.vocoder_path
    /\ argv.vocoder_config_path # Absent
         => synthesizer.vocoder_config = argv.vocoder_config_path

\* C2: every GET /details answers with the content, as it is on disk when
\* the call is made, of the configuration file the Synthesizer loaded, and
\* of the vocoder's when a vocoder was loaded.
C2_DetailsReadsLoadedConfig ==
  last.kind = "details" =>
    /\ last.status = 200
    /\ last.model_config =
         [path |-> synthesizer.tts_config_path, version |-> last.at]
    /\ synthesizer.vocoder_config # None =>
         last.vocoder_config =
           [path |-> synthesizer.vocoder_config, version |-> last.at]

\* C3: the listener is bound to 0.0.0.0 at the port of the --port flag
\* (5002 without the flag).
C3_ListensOnConfiguredPort ==
  IsListening =>
    /\ listening.host = "0.0.0.0"
    /\ listening.port = parse_args(argv).port

\* C4: on a run whose list-models flag is set nothing is downloaded, no
\* Synthesizer is constructed and no listener is started, and once line 71
\* has run the catalog is printed and the process has exited.
C4_ListModelsOnly ==
  parse_args(argv).list_models =>
    /\ downloads = 0
    /\ engines = 0
    /\ ~IsListening
    /\ Received = 0
    /\ pc \notin {"L66", "L71"} =>
         (pc = "exited" /\ listed /\ exit_code = "0")

C4_Witness ==
  /\ argv.list_models = Bare
  /\ argv.model_path = UserModelPath
  /\ pc = "exited"
  /\ listed

\* C5: style_wav_uri_to_dict gives None for the empty string; the string
\* itself, without reading it as JSON, when it names an existing file that
\* ends in .wav; and the mapping read from it when it does not name such a
\* file and is a JSON object.
C5_StyleResolution ==
  last.kind = "tts" =>
    /\ last.style_in = << >> =>
         (last.invoked /\ last.resolved = NoneV /\ ~last.parsed)
    /\ (last.style_in # << >> /\ IsWavFile(last.style_in)) =>
         /\ last.invoked
         /\ last.resolved = StrV(last.style_in)
         /\ ~last.parsed
    /\ last.style_in = S_dict =>
         /\ last.invoked
         /\ last.parsed
         /\ last.resolved = DictV(<<"0">> :> FloatV(1, 10))

C5_Witness ==
  /\ last.kind = "tts"
  /\ last.style_in = S_wav
  /\ last.resolved = StrV(S_wav)
  /\ last.status = 200

\* C6: the style the tts handler passes to the engine is absent, the path
\* of an existing .wav file, or a mapping, and nothing else.
C6_StyleShapes ==
  (last.kind = "tts" /\ last.invoked) =>
    \/ last.style.t = "none"
    \/ last.style.t = "str" /\ IsWavFile(last.style.v)
    \/ last.style.t = "dict"

\* the style strings that are not empty, name no existing .wav file and are
\* not JSON
InvalidStyles ==
  {s \in StyleInputs : s # << >> /\ ~IsWavFile(s) /\ ~JsonLoads(s).ok}

\* C7: a tts request whose style_wav is not empty, names no existing .wav
\* file and is not JSON is answered with an error: the engine is not called
\* for it, no audio is returned, and the server is still listening with its
\* event loop free, so that a request waiting is handled next.
C7_BadStyleIsError ==
  (last.kind = "tts" /\ last.style_in \in InvalidStyles) =>
    /\ last.status = 500
    /\ ~last.invoked
    /\ last.media = ""
    /\ pc = "serving"
    /\ IsListening
    /\ synth = 0
    /\ accepted["index"] > 0 => ENABLED index
    /\ accepted["details"] > 0 => ENABLED details
    /\ accepted["tts"] > 0 => ENABLED tts(S_empty)

C7_Witness ==
  /\ last.kind = "tts"
  /\ last.style_in = S_nowav
  /\ last.status = 500
  /\ accepted["tts"] > 0

\* C8: a process whose start-up failed or exited never listens and never
\* receives a request, and a process that listens or has received a
\* request has constructed its Synthesizer and has had no failure.
C8_NoServingAfterFailure ==
  /\ exit_code # None => (pc = "exited" /\ ~IsListening /\ Received = 0)
  /\ (IsListening \/ Received > 0) => (Constructed /\ exit_code = None)

C8_Witness ==
  /\ pc = "exited"
  /\ exit_code = "1"
  /\ pass = 1
  /\ downloads = 2
  /\ engines = 0

\* C9: while the server is serving, no step changes the parsed arguments,
\* the resolved paths, the Synthesizer, the multi-speaker and style-token
\* flags, or the listener.
C9_ConfigFixed ==
  [][pc = "serving" =>
       /\ args' = args
       /\ paths' = paths
       /\ engine' = engine
       /\ listening' = listening
       /\ pc' = "serving"]_vars

C9_Witness ==
  /\ pc = "serving"
  /\ done.ok > 0
  /\ done.err > 0
  /\ last.kind = "details"
  /\ last.status = 500

\* while a call of the engine is in progress the only request steps are the
\* arrival of a request and the call's return
SynthBlocks ==
  synth > 0 =>
    /\ synth' <= synth
    /\ \A route \in Routes : accepted'[route] >= accepted[route]
    /\ synth' = synth => (done' = done /\ last' = last)

\* C10: at most one call of the engine is in progress at any time, no other
\* handler takes a step while it is, and every request received is
\* answered once the calls of the engine return.
C10_SerialSynthesis ==
  /\ [](synth <= 1)
  /\ [][SynthBlocks]_vars
  /\ \A n \in 1..MaxReq : (Received >= n) ~> (done.ok + done.err >= n)

C10_Witness ==
  /\ synth = 1
  /\ accepted["tts"] > 0
  /\ accepted["tts"] + accepted["index"] + accepted["details"] = MaxReq - 1


=============================================================================
